---- MODULE Spec2Model ----
(***************************************************************************)
(* A model of the code_summary tool: the subcommand variant                *)
(* (generate / analyze, src/unnamed/part_000) and the combined-analysis    *)
(* variant (src/codeSummary.js).                                           *)
(*                                                                         *)
(* Text is modelled as a sequence of one-character strings, so that        *)
(* startsWith, endsWith, slice, extname and trim are computed and not      *)
(* assumed.  A directory tree on disk is a listing: [ok, items], items a   *)
(* sequence of entries [name, kind, ok, items, stat] in readdir order.     *)
(***************************************************************************)
EXTENDS Integers, Sequences, FiniteSets, TLC

VARIABLES
  exName,     \* isExcluded: the name asked about
  exRules,    \* isExcluded: the rule list in force
  exResult,   \* isExcluded: "none" before the call, then the BOOLEAN returned
  variant,    \* "sub" (part_000) or "combined" (codeSummary.js)
  command,    \* "generate" | "analyze" (sub), "main" (combined)
  apiKey,     \* process.env.OPENROUTER_API_KEY: "unset" | "empty" | "set"
  fs,         \* the directory tree on disk under the project root
  pc,         \* position of the run
  exitCode,   \* "running" | 0 | 1
  tree,       \* result of the tree builder
  allFiles,   \* result of the file collector
  fileData,   \* the fileData object: entries in Object.entries order
  inserted,   \* keys in the order the collection loop assigned them
  nulled,     \* paths for which readFileContent returned null
  prompt,     \* the prompt handed to sendToOpenRouter
  response,   \* outcome of the HTTP POST
  analysis,   \* what sendToOpenRouter returned
  outFile,    \* the output file: "untouched" | "empty" | "complete"
  nWrites,    \* writes (open + truncate + write) of the output file
  nPosts,     \* HTTP POSTs issued
  effects,    \* kinds of I/O performed so far
  log         \* console.error / console.warn lines, as tags

vars == <<exName, exRules, exResult, variant, command, apiKey, fs, pc, exitCode,
          tree, allFiles, fileData, inserted, nulled, prompt, response,
          analysis, outFile, nWrites, nPosts, effects, log>>

exVars == <<exName, exRules, exResult>>
runVars == <<variant, command, apiKey, fs, pc, exitCode, tree, allFiles,
             fileData, inserted, nulled, prompt, response, analysis, outFile,
             nWrites, nPosts, effects, log>>

-----------------------------------------------------------------------------
(* Bounds *)

\* longest generated name handed to isExcluded
MaxLen == 4
\* longest generated rule list handed to isExcluded
MaxRules == 2
\* most entries of a generated directory tree
MaxNodes == 3
\* most entries of the directory tree of a whole run
MaxRunNodes == 2
\* bytes of a file well under the size limit
SmallSize == 5

-----------------------------------------------------------------------------
(* Strings *)

\* String.prototype.startsWith(c) for a one-character c
StartsWith(s, c) == Len(s) > 0 /\ s[1] = c

\* String.prototype.slice(1)
Slice1(s) == IF Len(s) = 0 THEN <<>> ELSE Tail(s)

\* a plausible slip: the suffix found anywhere in the name
EndsWithAnywhere(s, suf) ==
  \E i \in 1..(Len(s) + 1) :
     /\ i + Len(suf) - 1 <= Len(s)
     /\ SubSeq(s, i, i + Len(suf) - 1) = suf

\* String.prototype.endsWith(suf)
EndsWith(s, suf) ==
  /\ Len(suf) <= Len(s)
  /\ SubSeq(s, Len(s) - Len(suf) + 1, Len(s)) = suf

\* all sequences over S of length at most n
RECURSIVE SeqsUpTo(_, _)
SeqsUpTo(S, n) ==
  IF n = 0 THEN {<<>>}
  ELSE LET shorter == SeqsUpTo(S, n - 1)
       IN  shorter \cup {Append(s, c) : s \in shorter, c \in S}

-----------------------------------------------------------------------------
(* Configuration *)

S_node_modules == <<"n","o","d","e","_","m","o","d","u","l","e","s">>
S_git == <<".","g","i","t">>
S_dist == <<"d","i","s","t">>
S_build == <<"b","u","i","l","d">>
S_coverage == <<"c","o","v","e","r","a","g","e">>
S_vscode == <<".","v","s","c","o","d","e">>
S_starlog == <<"*",".","l","o","g">>
S_startmp == <<"*",".","t","m","p">>
S_package_lock == <<"p","a","c","k","a","g","e","-","l","o","c","k",".","j","s","o","n">>
S_yarn_lock == <<"y","a","r","n",".","l","o","c","k">>
S_svelte_kit == <<".","s","v","e","l","t","e","-","k","i","t">>
S_main_js == <<"m","a","i","n",".","j","s">>
S_codeSummary_cjs == <<"c","o","d","e","S","u","m","m","a","r","y",".","c","j","s">>
S_env == <<".","e","n","v">>
S_gitignore == <<".","g","i","t","i","g","n","o","r","e">>

\* part_000: const EXCLUDE
EXCLUDE == <<S_node_modules, S_git, S_dist, S_build, S_coverage, S_vscode,
             S_starlog, S_startmp, S_package_lock, S_yarn_lock>>

\* codeSummary.js: const outputFile
outputFile == <<"C","o","d","e","A","n","a","l","y","s","i","s",".","m","d">>

\* codeSummary.js: const excludedDirs
excludedDirs == <<S_vscode, S_node_modules, S_git, S_dist, S_build, S_svelte_kit>>

\* codeSummary.js: const excludedFiles
excludedFiles == <<S_main_js, outputFile, S_codeSummary_cjs, S_package_lock,
                   S_yarn_lock, S_env, S_starlog, S_startmp, S_gitignore>>

\* Array.prototype.includes
Includes(list, x) == \E i \in 1..Len(list) : list[i] = x

-----------------------------------------------------------------------------
(* Exclusion filter *)

\* the for-of loop of isExcluded from rule i on; the first match returns true
RECURSIVE ExcludedFrom(_, _, _)
ExcludedFrom(list, name, i) ==
  IF i > Len(list) THEN FALSE
  ELSE LET pattern == list[i]
       IN  IF StartsWith(pattern, "*")
           THEN IF EndsWith(name, Slice1(pattern)) THEN TRUE
                ELSE ExcludedFrom(list, name, i + 1)
           ELSE IF name = pattern THEN TRUE
                ELSE ExcludedFrom(list, name, i + 1)

\* isExcluded(name) over the module's rule list
isExcluded(list, name) == ExcludedFrom(list, name, 1)

-----------------------------------------------------------------------------
(* The directory tree on disk *)

\* a regular file or a symbolic link; st is what stat and read will meet
Leaf(nm, k, s) == [name |-> nm, kind |-> k, ok |-> TRUE, items |-> <<>>, st |-> s]

\* a directory; ok is whether listing it succeeds
Dir(nm, o, its) == [name |-> nm, kind |-> "dir", ok |-> o, items |-> its, st |-> "na"]

\* sibling names are distinct
DistinctNames(items) ==
  \A i, j \in 1..Len(items) : i # j => items[i].name # items[j].name

\* entries of exactly k nodes, and listings of exactly m nodes, with names
\* from pool
RECURSIVE EntriesExact(_, _, _), ListingsExact(_, _, _)
EntriesExact(k, pool, sts) ==
  IF k = 1
  THEN {Leaf(nm, "file", s) : nm \in pool, s \in sts}
         \cup {Leaf(nm, "link", "small") : nm \in pool}
         \cup {Dir(nm, o, <<>>) : nm \in pool, o \in BOOLEAN}
  ELSE {Dir(nm, TRUE, its) : nm \in pool, its \in ListingsExact(k - 1, pool, sts)}

ListingsExact(m, pool, sts) ==
  IF m = 0 THEN {<<>>}
  ELSE UNION { LET first == EntriesExact(k, pool, sts)
                   others == ListingsExact(m - k, pool, sts)
               IN  {its \in {<<e>> \o rest : e \in first, rest \in others} :
                      DistinctNames(its)} :
               k \in 1..m }

-----------------------------------------------------------------------------
(* Tree builder, subcommand variant *)

\* the box-drawing pieces: "    ", "│   ", "└── ", "├── "
BLANK == "    "
BAR == "|   "
ELBOW == "+-- "
TEE == "|-- "
NL == "\n"

\* items.filter(item => !isExcluded(item.name))
FilterExcluded(items) == SelectSeq(items, LAMBDA it : ~isExcluded(EXCLUDE, it.name))

\* a plausible slip: the two indentation segments swapped
NewPrefixSwapped(prefix, isLast) == prefix \o <<IF isLast THEN BAR ELSE BLANK>>

\* prefix + (isLast ? '    ' : '│   ')
NewPrefix(prefix, isLast) == prefix \o <<IF isLast THEN BLANK ELSE BAR>>

\* buildDirectoryTree(dirPath, prefix): [text, errs], errs the console.error
\* calls made; the forEach runs from item i on
RECURSIVE buildDirectoryTree(_, _), BuildTreeFrom(_, _, _)
BuildTreeFrom(filteredItems, i, prefix) ==
  IF i > Len(filteredItems) THEN [text |-> <<>>, errs |-> 0]
  ELSE LET item == filteredItems[i]
           isLast == (i = Len(filteredItems))
           pointer == IF isLast THEN ELBOW ELSE TEE
           line == prefix \o <<pointer>> \o item.name \o <<NL>>
           newPrefix == NewPrefix(prefix, isLast)
           sub == IF item.kind = "dir"
                  THEN buildDirectoryTree(item, newPrefix)
                  ELSE [text |-> <<>>, errs |-> 0]
           rest == BuildTreeFrom(filteredItems, i + 1, prefix)
       IN  [text |-> line \o sub.text \o rest.text, errs |-> sub.errs + rest.errs]

buildDirectoryTree(dir, prefix) ==
  IF ~dir.ok THEN [text |-> <<>>, errs |-> 1]
  ELSE BuildTreeFrom(FilterExcluded(dir.items), 1, prefix)

-----------------------------------------------------------------------------
(* Tree builder, combined variant *)

\* the order localeCompare gives the characters names are made of here
\* (punctuation, then digits, then letters, a capital with its small letter)
CollationOrder ==
  <<{"."}, {"0"}, {"1"}, {"2"}, {"3"}, {"4"}, {"5"}, {"6"}, {"7"}, {"8"}, {"9"},
    {"a", "A"}, {"b", "B"}, {"c", "C"}, {"d", "D"}, {"e", "E"}, {"f", "F"},
    {"g", "G"}, {"h", "H"}, {"i", "I"}, {"j", "J"}, {"k", "K"}, {"l", "L"},
    {"m", "M"}, {"n", "N"}, {"o", "O"}, {"p", "P"}, {"q", "Q"}, {"r", "R"},
    {"s", "S"}, {"t", "T"}, {"u", "U"}, {"v", "V"}, {"w", "W"}, {"x", "X"},
    {"y", "Y"}, {"z", "Z"}>>

UpperCase == <<"A", "B", "C", "D", "E", "F", "G", "H", "I", "J", "K", "L", "M",
               "N", "O", "P", "Q", "R", "S", "T", "U", "V", "W", "X", "Y", "Z">>

LowerCase == <<"a", "b", "c", "d", "e", "f", "g", "h", "i", "j", "k", "l", "m",
               "n", "o", "p", "q", "r", "s", "t", "u", "v", "w", "x", "y", "z">>

\* a character with a capital letter made small
Fold(c) ==
  IF \E k \in 1..26 : UpperCase[k] = c
  THEN LowerCase[CHOOSE k \in 1..26 : UpperCase[k] = c]
  ELSE c

\* a text with its capital letters made small
ToLowerCase(s) == [i \in 1..Len(s) |-> Fold(s[i])]

\* the place of every character in that order
RankTable ==
  [c \in UNION {CollationOrder[i] : i \in 1..Len(CollationOrder)} |->
     CHOOSE i \in 1..Len(CollationOrder) : c \in CollationOrder[i]]

Rank(c) == RankTable[c]

\* a before b by the letters alone, whatever their case
RECURSIVE PrimaryLess(_, _)
PrimaryLess(a, b) ==
  IF Len(b) = 0 THEN FALSE
  ELSE IF Len(a) = 0 THEN TRUE
  ELSE IF Rank(a[1]) # Rank(b[1]) THEN Rank(a[1]) < Rank(b[1])
  ELSE PrimaryLess(Tail(a), Tail(b))

\* of two texts of the same letters, the one with the small letter at the
\* first difference comes first
RECURSIVE CaseLess(_, _)
CaseLess(a, b) ==
  IF Len(a) = 0 \/ Len(b) = 0 THEN FALSE
  ELSE IF a[1] # b[1] THEN a[1] = Fold(a[1])
  ELSE CaseLess(Tail(a), Tail(b))

\* a.localeCompare(b) < 0
LocaleLess(a, b) ==
  \/ PrimaryLess(a, b)
  \/ ~PrimaryLess(b, a) /\ CaseLess(a, b)

\* items.sort((a, b) => a.name.localeCompare(b.name))
RECURSIVE SortByName(_)
SortByName(items) ==
  IF Len(items) = 0 THEN <<>>
  ELSE LET m == CHOOSE i \in 1..Len(items) :
                  \A j \in 1..Len(items) : ~LocaleLess(items[j].name, items[i].name)
           others == [j \in 1..(Len(items) - 1) |-> IF j < m THEN items[j] ELSE items[j + 1]]
       IN  <<items[m]>> \o SortByName(others)

\* a plausible slip: both tests made on the name alone
SortedItemsKeepsByName(item) ==
  /\ ~Includes(excludedDirs, item.name)
  /\ ~isExcluded(excludedFiles, item.name)

\* the filter of getSortedItems: directories by excludeDirs.includes, regular
\* files by isExcluded; anything else stays
SortedItemsKeeps(item) ==
  /\ ~(item.kind = "dir" /\ Includes(excludedDirs, item.name))
  /\ ~(item.kind = "file" /\ isExcluded(excludedFiles, item.name))

\* getSortedItems(dir) once readdir has succeeded: directories first
getSortedItems(items) ==
  LET filteredItems == SelectSeq(items, SortedItemsKeeps)
  IN  SortByName(SelectSeq(filteredItems, LAMBDA it : it.kind = "dir"))
        \o SortByName(SelectSeq(filteredItems, LAMBDA it : it.kind # "dir"))

\* generateDirectoryTree(dir, prefix): [thrown, text]; a rejected readdir
\* rejects every enclosing call
RECURSIVE generateDirectoryTree(_, _), GenTreeFrom(_, _, _)
GenTreeFrom(items, i, prefix) ==
  IF i > Len(items) THEN [thrown |-> FALSE, text |-> <<>>]
  ELSE LET item == items[i]
           isLastItem == (i = Len(items))
           connector == IF isLastItem THEN ELBOW ELSE TEE
           line == prefix \o <<connector>> \o item.name \o <<NL>>
           newPrefix == NewPrefix(prefix, isLastItem)
           sub == IF item.kind = "dir"
                  THEN generateDirectoryTree(item, newPrefix)
                  ELSE [thrown |-> FALSE, text |-> <<>>]
       IN  IF sub.thrown THEN [thrown |-> TRUE, text |-> <<>>]
           ELSE LET rest == GenTreeFrom(items, i + 1, prefix)
                IN  IF rest.thrown THEN [thrown |-> TRUE, text |-> <<>>]
                    ELSE [thrown |-> FALSE, text |-> line \o sub.text \o rest.text]

generateDirectoryTree(dir, prefix) ==
  IF ~dir.ok THEN [thrown |-> TRUE, text |-> <<>>]
  ELSE GenTreeFrom(getSortedItems(dir.items), 1, prefix)

-----------------------------------------------------------------------------
(* isExcluded on its own: names and rule lists drawn from bounded sets *)

ExAlphabet == {".", "l", "o", "g"}

\* names: everything short over the alphabet, and the configured literals
ExNames ==
  SeqsUpTo(ExAlphabet, MaxLen)
    \cup {S_build, S_node_modules, S_main_js, S_env,
          <<"x",".","l","o","g">>, <<"x",".","L","O","G">>, <<".","l","o","G">>, <<"B","u","i","l","d">>,
          <<"a",".","t","m","p">>, <<"*",".","l","o","g">>}

ExRulePool == {S_starlog, <<"l","o","g">>, <<"*">>, <<"*","g">>, <<".","l","o","g">>,
               <<>>, S_build}

ExRuleLists == SeqsUpTo(ExRulePool, MaxRules) \cup {EXCLUDE, excludedFiles, excludedDirs}

Idle == [st |-> "none", val |-> <<>>]

RunIdle ==
  /\ variant = "none" /\ command = "none" /\ apiKey = "none"
  /\ fs = Idle /\ pc = "idle" /\ exitCode = "running"
  /\ tree = Idle /\ allFiles = Idle
  /\ fileData = <<>> /\ inserted = <<>> /\ nulled = {}
  /\ prompt = Idle /\ response = Idle /\ analysis = Idle
  /\ outFile = "untouched" /\ nWrites = 0 /\ nPosts = 0
  /\ effects = {} /\ log = <<>>

InitExcl ==
  /\ exName \in ExNames
  /\ exRules \in ExRuleLists
  /\ exResult = "none"
  /\ RunIdle

\* one call of isExcluded
CallIsExcluded ==
  /\ exResult = "none"
  /\ exResult' = IF isExcluded(exRules, exName) THEN "true" ELSE "false"
  /\ UNCHANGED <<exName, exRules>>
  /\ UNCHANGED runVars

\* the name matches some rule of R: literally, or as text ending with what
\* follows the leading '*'
MatchesRule(R, n) ==
  \/ \E i \in 1..Len(R) : ~StartsWith(R[i], "*") /\ n = R[i]
  \/ \E i \in 1..Len(R) :
        /\ StartsWith(R[i], "*")
        /\ \E k \in 0..Len(n) : n = SubSeq(n, 1, k) \o Tail(R[i])

NextExcl == CallIsExcluded

SpecExcl == InitExcl /\ [][NextExcl]_vars

\* C1: isExcluded(n) is true exactly when n equals some rule that does not
\* start with '*', or n is some text followed by what comes after the leading
\* '*' of a rule that starts with '*'; the call leaves name and rules alone.
C1_ExcludedIffRuleMatches ==
  exResult # "none" =>
    /\ (exResult = "true") <=> MatchesRule(exRules, exName)
    /\ (exRules = <<S_starlog>> /\ exName = <<"l","o","g">>) => exResult = "false"

\* the rule *.log has matched a name that .log is a proper suffix of
C1_Witness ==
  /\ exResult = "true"
  /\ exRules = <<S_starlog>>
  /\ exName = <<"x",".","l","o","g">>

-----------------------------------------------------------------------------
(* File collector *)

\* a plausible slip: only regular files are tested
CollectorSkipsFilesOnly(file) == file.kind = "file" /\ isExcluded(EXCLUDE, file.name)

\* !isExcluded(file.name), negated: the entry is passed over
CollectorSkips(file) == isExcluded(EXCLUDE, file.name)

\* a path below the root is the sequence of its components' names
\* getAllFiles(dirPath, arrayOfFiles) of part_000: [thrown, files]; readdirSync
\* is not guarded, the forEach runs from entry i on
RECURSIVE getAllFilesSub(_, _, _), AllFilesSubFrom(_, _, _, _)
AllFilesSubFrom(files, i, dirPath, arrayOfFiles) ==
  IF i > Len(files) THEN [thrown |-> FALSE, files |-> arrayOfFiles]
  ELSE LET file == files[i]
           filePath == Append(dirPath, file.name)
       IN  IF CollectorSkips(file)
           THEN AllFilesSubFrom(files, i + 1, dirPath, arrayOfFiles)
           ELSE IF file.kind = "dir"
           THEN LET sub == getAllFilesSub(file, filePath, arrayOfFiles)
                IN  IF sub.thrown THEN sub
                    ELSE AllFilesSubFrom(files, i + 1, dirPath, sub.files)
           ELSE IF file.kind = "file"
           THEN AllFilesSubFrom(files, i + 1, dirPath, Append(arrayOfFiles, filePath))
           ELSE AllFilesSubFrom(files, i + 1, dirPath, arrayOfFiles)

getAllFilesSub(dir, dirPath, arrayOfFiles) ==
  IF ~dir.ok THEN [thrown |-> TRUE, files |-> <<>>]
  ELSE AllFilesSubFrom(dir.items, 1, dirPath, arrayOfFiles)

\* getAllFiles(dir, excludeDirs, excludeFiles) of codeSummary.js
RECURSIVE getAllFilesCombined(_, _), AllFilesCombinedFrom(_, _, _, _)
AllFilesCombinedFrom(items, i, dir, filesList) ==
  IF i > Len(items) THEN [thrown |-> FALSE, files |-> filesList]
  ELSE LET item == items[i]
           fullPath == Append(dir, item.name)
       IN  IF item.kind = "dir"
           THEN IF ~Includes(excludedDirs, item.name)
                THEN LET nestedFiles == getAllFilesCombined(item, fullPath)
                     IN  IF nestedFiles.thrown THEN nestedFiles
                         ELSE AllFilesCombinedFrom(items, i + 1, dir,
                                                   filesList \o nestedFiles.files)
                ELSE AllFilesCombinedFrom(items, i + 1, dir, filesList)
           ELSE IF ~isExcluded(excludedFiles, item.name)
                THEN AllFilesCombinedFrom(items, i + 1, dir, Append(filesList, fullPath))
                ELSE AllFilesCombinedFrom(items, i + 1, dir, filesList)

getAllFilesCombined(dir, dirPath) ==
  IF ~dir.ok THEN [thrown |-> TRUE, files |-> <<>>]
  ELSE AllFilesCombinedFrom(dir.items, 1, dirPath, <<>>)

\* n console.error lines
Errors(n, tag) == [i \in 1..n |-> tag]

\* the tree builder of the variant, as [st, val, errs]
TreeOf(v, disk) ==
  IF v = "sub"
  THEN LET r == buildDirectoryTree(disk, <<>>)
       IN  [st |-> "ok", val |-> r.text, errs |-> r.errs]
  ELSE LET r == generateDirectoryTree(disk, <<>>)
       IN  [st |-> IF r.thrown THEN "thrown" ELSE "ok", val |-> r.text, errs |-> 0]

\* the file collector of the variant, as [st, val]
FilesOf(v, disk) ==
  LET r == IF v = "sub" THEN getAllFilesSub(disk, <<>>, <<>>)
           ELSE getAllFilesCombined(disk, <<>>)
  IN  [st |-> IF r.thrown THEN "thrown" ELSE "ok", val |-> r.files]

-----------------------------------------------------------------------------
(* Content loader *)

\* readFileContent(filePath, maxSize = 1000000)
MaxSizeDefault == 1000000

\* stats.size of a file: one byte over the limit, exactly the limit, or small
SizeOf(e) ==
  IF e.st = "big" THEN MaxSizeDefault + 1
  ELSE IF e.st = "exact" THEN MaxSizeDefault
  ELSE SmallSize

\* what fs.readFileSync(filePath, 'utf8') returns: the text of all the bytes
TextOf(filePath, e) == [of |-> filePath, bytes |-> SizeOf(e)]

NoText == [of |-> <<>>, bytes |-> 0]

\* a plausible slip: a file of exactly maxSize is skipped too
SizeExceedsOrEquals(size, maxSize) == size >= maxSize

\* stats.size > maxSize
SizeExceeds(size, maxSize) == size > maxSize

\* readFileContent(filePath, maxSize): [null, content, tag]; statSync or
\* readFileSync throwing lands in the catch, which logs and returns null
readFileContent(e, filePath, maxSize) ==
  IF e.st = "nostat"
  THEN [null |-> TRUE, content |-> NoText, tag |-> "read-error"]
  ELSE IF SizeExceeds(SizeOf(e), maxSize)
  THEN [null |-> TRUE, content |-> NoText, tag |-> "size-warning"]
  ELSE IF e.st = "noread"
  THEN [null |-> TRUE, content |-> NoText, tag |-> "read-error"]
  ELSE [null |-> FALSE, content |-> TextOf(filePath, e), tag |-> "none"]

-----------------------------------------------------------------------------
(* The fileData object *)

Digits == <<"0", "1", "2", "3", "4", "5", "6", "7", "8", "9">>

IsDigit(c) == \E i \in 1..Len(Digits) : Digits[i] = c

DigitValue(c) == (CHOOSE i \in 1..Len(Digits) : Digits[i] = c) - 1

\* a < b for canonical numeric strings: shorter first, then digit by digit
RECURSIVE DigitsLess(_, _)
DigitsLess(a, b) ==
  IF Len(a) # Len(b) THEN Len(a) < Len(b)
  ELSE IF Len(a) = 0 THEN FALSE
  ELSE IF a[1] # b[1] THEN DigitValue(a[1]) < DigitValue(b[1])
  ELSE DigitsLess(Tail(a), Tail(b))

\* 2^32 - 2, the largest array index
MaxArrayIndex == <<"4", "2", "9", "4", "9", "6", "7", "2", "9", "4">>

\* a property key that is an array index: a canonical numeric string
IsArrayIndex(key) ==
  /\ Len(key) > 0
  /\ \A i \in 1..Len(key) : IsDigit(key[i])
  /\ Len(key) = 1 \/ key[1] # "0"
  /\ DigitsLess(key, MaxArrayIndex) \/ key = MaxArrayIndex

\* obj[key] = val on an ordinary object, kept in own-property-key order:
\* array indices ascending, then the other keys in creation order
ObjPut(obj, key, val) ==
  IF \E i \in 1..Len(obj) : obj[i].key = key
  THEN [i \in 1..Len(obj) |-> IF obj[i].key = key THEN [key |-> key, val |-> val] ELSE obj[i]]
  ELSE IF IsArrayIndex(key)
  THEN LET before == SelectSeq(obj, LAMBDA en : IsArrayIndex(en.key) /\ DigitsLess(en.key, key))
           after == SelectSeq(obj, LAMBDA en : ~(IsArrayIndex(en.key) /\ DigitsLess(en.key, key)))
       IN  before \o <<[key |-> key, val |-> val]>> \o after
  ELSE Append(obj, [key |-> key, val |-> val])

\* Object.keys(obj)
ObjectKeys(obj) == [i \in 1..Len(obj) |-> obj[i].key]

\* path.relative(projectPath, filePath): the components joined by '/'
RECURSIVE RelativePath(_)
RelativePath(path) ==
  IF Len(path) = 1 THEN path[1]
  ELSE path[1] \o <<"/">> \o RelativePath(Tail(path))

\* the entry a collected path names (the path exists on the disk)
RECURSIVE EntryAt(_, _)
EntryAt(items, path) ==
  LET e == CHOOSE x \in {items[i] : i \in 1..Len(items)} : x.name = path[1]
  IN  IF Len(path) = 1 THEN e ELSE EntryAt(e.items, Tail(path))

\* the collection loop from file i on: fileData, and what the model records
\* beside it (keys in assignment order, keys that got null, the log)
RECURSIVE LoadFrom(_, _, _, _)
LoadFrom(disk, files, i, acc) ==
  IF i > Len(files) THEN acc
  ELSE LET filePath == files[i]
           relativePath == RelativePath(filePath)
           content == readFileContent(EntryAt(disk.items, filePath), filePath, MaxSizeDefault)
       IN  IF ~content.null
           THEN LoadFrom(disk, files, i + 1,
                  [acc EXCEPT !.data = ObjPut(acc.data, relativePath, content.content),
                              !.inserted = Append(acc.inserted, relativePath)])
           ELSE LoadFrom(disk, files, i + 1,
                  [acc EXCEPT !.nulled = acc.nulled \cup {relativePath},
                              !.log = Append(acc.log, content.tag)])

LoadAll(disk, files) ==
  LoadFrom(disk, files, 1, [data |-> <<>>, inserted |-> <<>>, nulled |-> {}, log |-> <<>>])

-----------------------------------------------------------------------------
(* Prompt assembler *)

\* index of the last c in s, 0 if there is none
LastIndexOf(s, c) ==
  IF \E i \in 1..Len(s) : s[i] = c
  THEN CHOOSE i \in 1..Len(s) : s[i] = c /\ \A j \in (i + 1)..Len(s) : s[j] # c
  ELSE 0

\* the part of a path after its last '/'
Basename(file) == SubSeq(file, LastIndexOf(file, "/") + 1, Len(file))

\* path.extname(file): from the last '.' of the basename; empty when there is
\* none, when it is the first character, or when the basename is '..'
ExtName(file) ==
  LET base == Basename(file)
      dot == LastIndexOf(base, ".")
  IN  IF dot = 0 \/ dot = 1 THEN <<>>
      ELSE IF base = <<".", ".">> THEN <<>>
      ELSE SubSeq(base, dot, Len(base))

\* path.extname(file).substring(1), and in analyzeCodebase: || 'txt'
LangTag(v, file) ==
  LET tag == Slice1(ExtName(file))
  IN  IF v = "combined" /\ tag = <<>> THEN <<"t", "x", "t">> ELSE tag

\* the template literal: the fixed text of the variant, the tree section
\* (combined only), and a block per entry of Object.entries(fileData)
PromptOf(v, directoryTree, obj) ==
  [intro |-> v,
   tree |-> directoryTree,
   blocks |-> [i \in 1..Len(obj) |->
                 [file |-> obj[i].key, lang |-> LangTag(v, obj[i].key),
                  content |-> obj[i].val]]]

\* sections['Directory']: the tree between two code-fence lines
FENCE == "<fence>"
DirectorySection(text) == <<FENCE, NL>> \o text \o <<NL, FENCE>>

-----------------------------------------------------------------------------
(* Remote analysis client *)

IsSpace(c) == c \in {" ", NL}

\* String.prototype.trim
RECURSIVE TrimStart(_), TrimEnd(_)
TrimStart(s) == IF Len(s) > 0 /\ IsSpace(s[1]) THEN TrimStart(Tail(s)) ELSE s
TrimEnd(s) ==
  IF Len(s) > 0 /\ IsSpace(s[Len(s)]) THEN TrimEnd(SubSeq(s, 1, Len(s) - 1)) ELSE s
Trim(s) == TrimEnd(TrimStart(s))

\* bodies of a 2xx answer
TextBodies == {<<"o", "k">>, <<" ", "o", "k", NL>>, <<" ">>}
ShapeBodies == {"nodata", "nochoices", "emptychoices", "nomessage", "nocontent", "nonstring"}

\* what the POST can come to: no answer at all, a status outside 2xx, or a
\* 2xx answer with one of the bodies
Responses ==
  {[kind |-> "neterr", status |-> 0, shape |-> "none", text |-> <<>>],
   [kind |-> "http", status |-> 500, shape |-> "none", text |-> <<>>]}
    \cup {[kind |-> "ok", status |-> 200, shape |-> b, text |-> <<>>] : b \in ShapeBodies}
    \cup {[kind |-> "ok", status |-> 200, shape |-> "content", text |-> t] : t \in TextBodies}

\* the try block of sendToOpenRouter: axios rejects without an answer and on
\* a status outside 2xx; reading .message.content.trim() off a choice that
\* lacks it throws a TypeError
TryPost(r) ==
  IF r.kind # "ok" THEN [st |-> "throw", val |-> <<>>, tag |-> "none"]
  ELSE IF r.shape \in {"nodata", "nochoices", "emptychoices"}
  THEN [st |-> "return", val |-> <<>>, tag |-> "no-response"]
  ELSE IF r.shape \in {"nomessage", "nocontent", "nonstring"}
  THEN [st |-> "throw", val |-> <<>>, tag |-> "none"]
  ELSE [st |-> "return", val |-> Trim(r.text), tag |-> "none"]

\* a plausible slip: the catch reads error.response.data unguarded, and so
\* throws for every error that carries no response
sendToOpenRouterUnguarded(r) ==
  LET t == TryPost(r)
  IN  IF t.st = "return" THEN [st |-> "ok", val |-> t.val, tag |-> t.tag]
      ELSE IF r.kind = "http" THEN [st |-> "ok", val |-> <<>>, tag |-> "api-error"]
      ELSE [st |-> "thrown", val |-> <<>>, tag |-> "none"]

\* sendToOpenRouter(prompt) once the POST has come to r: [st, val, tag]
sendToOpenRouter(r) ==
  LET t == TryPost(r)
  IN  IF t.st = "return" THEN [st |-> "ok", val |-> t.val, tag |-> t.tag]
      ELSE [st |-> "ok", val |-> <<>>, tag |-> "api-error"]

-----------------------------------------------------------------------------
(* The two walks on their own: disks drawn from a bounded family *)

N_a == <<"a">>
N_b == <<"b">>
N_xlog == <<"x", ".", "l", "o", "g">>

WalkNames == {N_a, N_b, S_build, N_xlog}

\* a listing placed in directory b, with a regular file a after or before it
Nest(how, its) ==
  IF how = "plain" THEN its
  ELSE IF how = "first" THEN <<Dir(N_b, TRUE, its), Leaf(N_a, "file", "small")>>
  ELSE <<Leaf(N_a, "file", "small"), Dir(N_b, TRUE, its)>>

\* the disks: the root that cannot be listed; every listing of up to MaxNodes
\* nodes; every non-empty listing of fewer nodes, nested
WalkDisk(disk) ==
  \/ disk = [ok |-> FALSE, items |-> <<>>]
  \/ disk = [ok |-> TRUE, items |-> <<>>]
  \/ \E m \in 1..MaxNodes : \E k \in 1..m :
       \E e \in EntriesExact(k, WalkNames, {"small"}) :
         \E rest \in ListingsExact(m - k, WalkNames, {"small"}) :
           \E how \in {"plain", "first", "last"} :
             /\ DistinctNames(<<e>> \o rest)
             /\ how # "plain" => m < MaxNodes
             /\ disk = [ok |-> TRUE, items |-> Nest(how, <<e>> \o rest)]

ExIdle == exName = <<>> /\ exRules = <<>> /\ exResult = "none"

InitWalk ==
  /\ ExIdle
  /\ variant \in {"sub", "combined"}
  /\ WalkDisk(fs)
  /\ command = "none" /\ apiKey = "none"
  /\ pc = "walk" /\ exitCode = "running"
  /\ tree = Idle /\ allFiles = Idle
  /\ fileData = <<>> /\ inserted = <<>> /\ nulled = {}
  /\ prompt = Idle /\ response = Idle /\ analysis = Idle
  /\ outFile = "untouched" /\ nWrites = 0 /\ nPosts = 0
  /\ effects = {} /\ log = <<>>

\* one call of the tree builder on the root
WalkTree ==
  /\ pc = "walk"
  /\ tree = Idle
  /\ LET r == TreeOf(variant, fs)
     IN  /\ tree' = [st |-> r.st, val |-> r.val]
         /\ log' = log \o Errors(r.errs, "readdir")
  /\ pc' = "walked"
  /\ UNCHANGED <<variant, command, apiKey, fs, exitCode, allFiles, fileData,
                 inserted, nulled, prompt, response, analysis, outFile, nWrites,
                 nPosts, effects>>
  /\ UNCHANGED exVars

\* one call of the file collector on the root
WalkFiles ==
  /\ pc = "walked"
  /\ allFiles = Idle
  /\ allFiles' = FilesOf(variant, fs)
  /\ UNCHANGED <<variant, command, apiKey, fs, pc, exitCode, tree, fileData,
                 inserted, nulled, prompt, response, analysis, outFile, nWrites,
                 nPosts, effects, log>>
  /\ UNCHANGED exVars

NextWalk == WalkTree \/ WalkFiles

SpecWalk == InitWalk /\ [][NextWalk]_vars

-----------------------------------------------------------------------------
(* A whole run of either variant *)

N_1 == <<"1">>

N_MJS == <<"M", ".", "J", "S">>

RunNames == {N_a, N_1, N_xlog, N_MJS}
RunStats == {"small", "exact", "big", "noread", "nostat"}

\* the disks of a run: the root that cannot be listed, and every listing of
\* up to MaxRunNodes nodes
RunDisk(disk) ==
  \/ disk = [ok |-> FALSE, items |-> <<>>]
  \/ disk = [ok |-> TRUE, items |-> <<>>]
  \/ \E m \in 1..MaxRunNodes : \E k \in 1..m :
       \E e \in EntriesExact(k, RunNames, RunStats) :
         \E rest \in ListingsExact(m - k, RunNames, RunStats) :
           /\ DistinctNames(<<e>> \o rest)
           /\ disk = [ok |-> TRUE, items |-> <<e>> \o rest]

Init ==
  /\ ExIdle
  /\ \E vc \in {<<"sub", "generate">>, <<"sub", "analyze">>, <<"combined", "main">>} :
       variant = vc[1] /\ command = vc[2]
  /\ apiKey \in {"unset", "empty", "set"}
  /\ RunDisk(fs)
  /\ pc = "boot" /\ exitCode = "running"
  /\ tree = Idle /\ allFiles = Idle
  /\ fileData = <<>> /\ inserted = <<>> /\ nulled = {}
  /\ prompt = Idle /\ response = Idle /\ analysis = Idle
  /\ outFile = "untouched" /\ nWrites = 0 /\ nPosts = 0
  /\ effects = {} /\ log = <<>>

\* a plausible slip: only an undefined variable counts as missing
KeyUndefined(key) == key = "unset"

\* !OPENROUTER_API_KEY: undefined and the empty string are both falsy
KeyMissing(key) == key \in {"unset", "empty"}

\* module top level: the API key is validated before anything else runs
Startup ==
  /\ pc = "boot"
  /\ IF KeyMissing(apiKey)
     THEN /\ log' = Append(log, "key-missing")
          /\ exitCode' = 1
          /\ pc' = "exit"
     ELSE /\ pc' = "ready"
          /\ UNCHANGED <<log, exitCode>>
  /\ UNCHANGED <<variant, command, apiKey, fs, tree, allFiles, fileData, inserted,
                 nulled, prompt, response, analysis, outFile, nWrites, nPosts, effects>>
  /\ UNCHANGED exVars

\* mainGenerate: the project name, the tree, one guarded writeFileSync
SubGenerate ==
  /\ pc = "ready" /\ variant = "sub" /\ command = "generate"
  /\ \E wok \in BOOLEAN :
       LET t == TreeOf("sub", fs)
       IN  /\ tree' = [st |-> t.st, val |-> t.val]
           /\ effects' = effects \cup {"read", "list", "write"}
           /\ outFile' = IF wok THEN "complete" ELSE outFile
           /\ nWrites' = IF wok THEN nWrites + 1 ELSE nWrites
           /\ log' = log \o Errors(t.errs, "readdir")
                         \o (IF wok THEN <<>> ELSE <<"write-error">>)
  /\ pc' = "done"
  /\ exitCode' = 0
  /\ UNCHANGED <<variant, command, apiKey, fs, allFiles, fileData, inserted, nulled,
                 prompt, response, analysis, nPosts>>
  /\ UNCHANGED exVars

\* mainAnalyze up to its await: collect, load, assemble the prompt, POST.  A
\* throw of getAllFiles rejects the promise mainAnalyze returned, which
\* nothing handles: the process dies of the unhandled rejection
SubAnalyzeStart ==
  /\ pc = "ready" /\ variant = "sub" /\ command = "analyze"
  /\ LET f == FilesOf("sub", fs)
         l == LoadAll(fs, f.val)
     IN  IF f.st = "thrown"
         THEN /\ allFiles' = f
              /\ effects' = effects \cup {"list"}
              /\ pc' = "crashed"
              /\ exitCode' = 1
              /\ UNCHANGED <<fileData, inserted, nulled, prompt, nPosts, log>>
         ELSE /\ allFiles' = f
              /\ fileData' = l.data
              /\ inserted' = l.inserted
              /\ nulled' = l.nulled
              /\ log' = log \o l.log
              /\ prompt' = [st |-> "ok", val |-> PromptOf("sub", <<>>, l.data)]
              /\ nPosts' = nPosts + 1
              /\ effects' = effects \cup {"read", "list", "post"}
              /\ pc' = "awaitPost"
              /\ UNCHANGED exitCode
  /\ UNCHANGED <<variant, command, apiKey, fs, tree, response, analysis, outFile, nWrites>>
  /\ UNCHANGED exVars

\* axios.post settles
HttpRespond ==
  /\ pc = "awaitPost"
  /\ \E r \in Responses : response' = [st |-> "ok", val |-> r]
  /\ pc' = "responded"
  /\ UNCHANGED <<variant, command, apiKey, fs, exitCode, tree, allFiles, fileData,
                 inserted, nulled, prompt, analysis, outFile, nWrites, nPosts,
                 effects, log>>
  /\ UNCHANGED exVars

\* mainAnalyze after its await: the analysis is written only if not empty
SubAnalyzeFinish ==
  /\ pc = "responded" /\ variant = "sub"
  /\ \E wok \in BOOLEAN :
       LET a == sendToOpenRouter(response.val)
           said == IF a.tag = "none" THEN <<>> ELSE <<a.tag>>
       IN  IF a.st = "thrown"
           THEN /\ analysis' = [st |-> "thrown", val |-> <<>>]
                /\ pc' = "crashed"
                /\ exitCode' = 1
                /\ UNCHANGED <<outFile, nWrites, effects, log>>
           ELSE /\ analysis' = [st |-> "ok", val |-> a.val]
                /\ pc' = "done"
                /\ exitCode' = 0
                /\ IF a.val # <<>>
                   THEN /\ effects' = effects \cup {"write"}
                        /\ outFile' = IF wok THEN "complete" ELSE outFile
                        /\ nWrites' = IF wok THEN nWrites + 1 ELSE nWrites
                        /\ log' = log \o said \o (IF wok THEN <<>> ELSE <<"write-error">>)
                   ELSE /\ log' = log \o said \o <<"no-analysis">>
                        /\ UNCHANGED <<outFile, nWrites, effects>>
  /\ UNCHANGED <<variant, command, apiKey, fs, tree, allFiles, fileData, inserted,
                 nulled, prompt, response, nPosts>>
  /\ UNCHANGED exVars

\* main: 'Initialize or clear the output file'; a throw anywhere in main is
\* caught by its catch, which logs and lets main end
CombInit ==
  /\ pc = "ready" /\ variant = "combined"
  /\ \E wok \in BOOLEAN :
       IF wok
       THEN /\ outFile' = "empty"
            /\ nWrites' = nWrites + 1
            /\ pc' = "initialized"
            /\ UNCHANGED <<log, exitCode>>
       ELSE /\ log' = Append(log, "main-error")
            /\ pc' = "done"
            /\ exitCode' = 0
            /\ UNCHANGED <<outFile, nWrites>>
  /\ effects' = effects \cup {"write"}
  /\ UNCHANGED <<variant, command, apiKey, fs, tree, allFiles, fileData, inserted,
                 nulled, prompt, response, analysis, nPosts>>
  /\ UNCHANGED exVars

\* main: await generateDirectoryTree('.', '', true, excludedDirs, excludedFiles)
CombTree ==
  /\ pc = "initialized"
  /\ LET t == TreeOf("combined", fs)
     IN  /\ tree' = [st |-> t.st, val |-> t.val]
         /\ IF t.st = "thrown"
            THEN /\ log' = Append(log, "main-error")
                 /\ pc' = "done"
                 /\ exitCode' = 0
            ELSE /\ pc' = "treeDone"
                 /\ UNCHANGED <<log, exitCode>>
  /\ effects' = effects \cup {"list"}
  /\ UNCHANGED <<variant, command, apiKey, fs, allFiles, fileData, inserted, nulled,
                 prompt, response, analysis, outFile, nWrites, nPosts>>
  /\ UNCHANGED exVars

\* main: await getAllFiles(...), then the collection loop
CombCollect ==
  /\ pc = "treeDone"
  /\ LET f == FilesOf("combined", fs)
         l == LoadAll(fs, f.val)
     IN  /\ allFiles' = f
         /\ IF f.st = "thrown"
            THEN /\ log' = Append(log, "main-error")
                 /\ pc' = "done"
                 /\ exitCode' = 0
                 /\ effects' = effects \cup {"list"}
                 /\ UNCHANGED <<fileData, inserted, nulled>>
            ELSE /\ fileData' = l.data
                 /\ inserted' = l.inserted
                 /\ nulled' = l.nulled
                 /\ log' = log \o l.log
                 /\ pc' = "collected"
                 /\ effects' = effects \cup {"list", "read"}
                 /\ UNCHANGED exitCode
  /\ UNCHANGED <<variant, command, apiKey, fs, tree, prompt, response, analysis,
                 outFile, nWrites, nPosts>>
  /\ UNCHANGED exVars

\* a plausible slip: the prompt is sent even when no file was loaded
CombAnalyzeAlways ==
  /\ pc = "collected"
  /\ prompt' = [st |-> "ok",
                val |-> PromptOf("combined", DirectorySection(tree.val), fileData)]
  /\ nPosts' = nPosts + 1
  /\ effects' = effects \cup {"post"}
  /\ pc' = "awaitPost"
  /\ UNCHANGED <<log, analysis>>
  /\ UNCHANGED <<variant, command, apiKey, fs, exitCode, tree, allFiles, fileData,
                 inserted, nulled, response, outFile, nWrites>>
  /\ UNCHANGED exVars

\* analyzeCodebase up to its await: nothing is sent when fileData is empty
CombAnalyze ==
  /\ pc = "collected"
  /\ IF Len(ObjectKeys(fileData)) = 0
     THEN /\ log' = Append(log, "no-files")
          /\ analysis' = [st |-> "ok", val |-> <<>>]
          /\ pc' = "analyzed"
          /\ UNCHANGED <<prompt, nPosts, effects>>
     ELSE /\ prompt' = [st |-> "ok",
                        val |-> PromptOf("combined", DirectorySection(tree.val), fileData)]
          /\ nPosts' = nPosts + 1
          /\ effects' = effects \cup {"post"}
          /\ pc' = "awaitPost"
          /\ UNCHANGED <<log, analysis>>
  /\ UNCHANGED <<variant, command, apiKey, fs, exitCode, tree, allFiles, fileData,
                 inserted, nulled, response, outFile, nWrites>>
  /\ UNCHANGED exVars

\* analyzeCodebase after its await
CombAfterPost ==
  /\ pc = "responded" /\ variant = "combined"
  /\ LET a == sendToOpenRouter(response.val)
         said == IF a.tag = "none" THEN <<>> ELSE <<a.tag>>
     IN  IF a.st = "thrown"
         THEN /\ analysis' = [st |-> "thrown", val |-> <<>>]
              /\ log' = Append(log, "main-error")
              /\ pc' = "done"
              /\ exitCode' = 0
         ELSE /\ analysis' = [st |-> "ok", val |-> a.val]
              /\ log' = log \o said \o (IF a.val = <<>> THEN <<"no-analysis">> ELSE <<>>)
              /\ pc' = "analyzed"
              /\ UNCHANGED exitCode
  /\ UNCHANGED <<variant, command, apiKey, fs, tree, allFiles, fileData, inserted,
                 nulled, prompt, response, outFile, nWrites, nPosts, effects>>
  /\ UNCHANGED exVars

\* main: the sections, the table of contents, the final writeFile
CombFinish ==
  /\ pc = "analyzed"
  /\ \E wok \in BOOLEAN :
       /\ outFile' = IF wok THEN "complete" ELSE outFile
       /\ nWrites' = IF wok THEN nWrites + 1 ELSE nWrites
       /\ log' = IF wok THEN log ELSE Append(log, "main-error")
  /\ pc' = "done"
  /\ exitCode' = 0
  /\ UNCHANGED <<variant, command, apiKey, fs, tree, allFiles, fileData, inserted,
                 nulled, prompt, response, analysis, nPosts, effects>>
  /\ UNCHANGED exVars

Next ==
  \/ Startup
  \/ SubGenerate
  \/ SubAnalyzeStart
  \/ HttpRespond
  \/ SubAnalyzeFinish
  \/ CombInit
  \/ CombTree
  \/ CombCollect
  \/ CombAnalyze
  \/ CombAfterPost
  \/ CombFinish

Spec == Init /\ [][Next]_vars

-----------------------------------------------------------------------------
(* Reading a rendered tree back, and the disk's own view of its entries *)

\* every exclusion rule the variant configures
RulesOf(v) == IF v = "sub" THEN EXCLUDE ELSE excludedDirs \o excludedFiles

\* the lines of a text: each maximal run of tokens closed by a newline
RECURSIVE LinesOf(_, _)
LinesOf(text, cur) ==
  IF Len(text) = 0 THEN <<>>
  ELSE IF Head(text) = NL THEN <<cur>> \o LinesOf(Tail(text), <<>>)
  ELSE LinesOf(Tail(text), Append(cur, Head(text)))

\* number of leading indentation segments of a line
RECURSIVE Indent(_)
Indent(line) ==
  IF Len(line) > 0 /\ Head(line) \in {BLANK, BAR} THEN 1 + Indent(Tail(line)) ELSE 0

\* what follows the connector of a line
NameOfLine(line) == SubSeq(line, Indent(line) + 2, Len(line))

\* a line is indentation, one connector, a name
WellFormedLine(line) ==
  /\ Len(line) > Indent(line) + 1
  /\ line[Indent(line) + 1] \in {ELBOW, TEE}
  /\ \A j \in (Indent(line) + 2)..Len(line) : line[j] \notin {BLANK, BAR, ELBOW, TEE, NL}

\* the path of every line: its name under the path of the nearest earlier line
\* indented one segment less
RECURSIVE PathsOfLines(_, _)
PathsOfLines(lines, stack) ==
  IF Len(lines) = 0 THEN <<>>
  ELSE LET d == Indent(Head(lines))
           path == Append(SubSeq(stack, 1, d), NameOfLine(Head(lines)))
       IN  <<path>> \o PathsOfLines(Tail(lines), path)

RenderedPaths(text) ==
  LET ps == PathsOfLines(LinesOf(text, <<>>), <<>>)
  IN  {ps[i] : i \in 1..Len(ps)}

\* every path of names on the disk
RECURSIVE DiskPaths(_)
DiskPaths(items) ==
  UNION {{<<items[i].name>>} \cup {<<items[i].name>> \o q : q \in DiskPaths(items[i].items)} :
         i \in 1..Len(items)}

\* the entries along a path, from the root down
EntriesAlong(items, path) == [i \in 1..Len(path) |-> EntryAt(items, SubSeq(path, 1, i))]

\* what each tree builder is written to leave out
TreeOmits(v, e) ==
  IF v = "sub" THEN MatchesRule(EXCLUDE, e.name)
  ELSE \/ e.kind = "dir" /\ \E i \in 1..Len(excludedDirs) : excludedDirs[i] = e.name
       \/ e.kind = "file" /\ MatchesRule(excludedFiles, e.name)

\* the survivors of a listing, in the order the variant renders them
Survivors(v, items) == IF v = "sub" THEN FilterExcluded(items) ELSE getSortedItems(items)

\* the lines of the survivors S of one directory from the i-th on, P being
\* the segments of the ancestors: the line of an entry is P, a connector and
\* the name; the lines of what is beneath it follow at once, with one more
\* segment
RECURSIVE ExpectedFrom(_, _, _, _)
ExpectedFrom(v, S, i, P) ==
  IF i > Len(S) THEN <<>>
  ELSE LET isLast == i = Len(S)
       IN  P \o <<IF isLast THEN ELBOW ELSE TEE>> \o S[i].name \o <<NL>>
             \o ExpectedFrom(v, Survivors(v, S[i].items), 1,
                             Append(P, IF isLast THEN BLANK ELSE BAR))
             \o ExpectedFrom(v, S, i + 1, P)

ExpectedTree(v, disk) == ExpectedFrom(v, Survivors(v, disk.items), 1, <<>>)

\* some directory that is reached cannot be listed
RECURSIVE SomeListingFails(_, _)
SomeListingFails(v, disk) ==
  \/ ~disk.ok
  \/ \E i \in 1..Len(Survivors(v, disk.items)) :
       LET e == Survivors(v, disk.items)[i]
       IN  e.kind = "dir" /\ SomeListingFails(v, e)

-----------------------------------------------------------------------------
(* Claims about the walks *)

\* C2 (as amended): the file collector returns no path with a component that
\* its variant is written to skip: in the subcommand variant no basename and
\* no ancestor directory name matches a rule of EXCLUDE; in the combined
\* variant no basename matches a rule of excludedFiles and no ancestor
\* directory is named in excludedDirs.
C2_CollectedAvoidExcluded ==
  allFiles.st = "ok" =>
    \A i \in 1..Len(allFiles.val) :
      LET path == allFiles.val[i]
          n == Len(path)
      IN  IF variant = "sub"
          THEN \A j \in 1..n : ~MatchesRule(EXCLUDE, path[j])
          ELSE /\ ~MatchesRule(excludedFiles, path[n])
               /\ \A j \in 1..(n - 1) : ~MatchesRule(excludedDirs, path[j])

\* files were collected, and a file that lies in a directory with an
\* excluded name was passed over
C2_Witness ==
  /\ allFiles.st = "ok"
  /\ Len(allFiles.val) > 0
  /\ \E p \in DiskPaths(fs.items) :
       /\ Len(p) = 2
       /\ MatchesRule(RulesOf(variant), p[1])
       /\ EntryAt(fs.items, p).kind = "file"
       /\ \A i \in 1..Len(allFiles.val) : allFiles.val[i] # p

\* C2 (as stated): no returned path has a basename or an ancestor directory
\* name matching any configured exclusion rule, whatever the entry's type.
C2_Original ==
  allFiles.st = "ok" =>
    \A i \in 1..Len(allFiles.val) :
      \A j \in 1..Len(allFiles.val[i]) :
        ~MatchesRule(RulesOf(variant), allFiles.val[i][j])

\* C3 (as amended): the rendered tree has a line for exactly the entries
\* reached through listed directories none of which, the entry included, its
\* variant leaves out: by name alone in the subcommand variant; in the
\* combined variant a directory named in excludedDirs or a regular file
\* matching excludedFiles.
C3_RenderedAreTheKept ==
  tree.st = "ok" =>
    RenderedPaths(tree.val) =
      {p \in DiskPaths(fs.items) :
         \A i \in 1..Len(p) : ~TreeOmits(variant, EntriesAlong(fs.items, p)[i])}

\* a tree was rendered for a disk holding an entry with an excluded name
C3_Witness ==
  /\ tree.st = "ok"
  /\ Len(tree.val) > 0
  /\ \E p \in DiskPaths(fs.items) : MatchesRule(RulesOf(variant), p[Len(p)])
  /\ variant = "combined"

\* C3 (as stated): no line for an entry whose name matches an exclusion rule,
\* nor for anything beneath one, whatever the entry's type.
C3_Original ==
  tree.st = "ok" =>
    \A p \in RenderedPaths(tree.val) :
      \A i \in 1..Len(p) : ~MatchesRule(RulesOf(variant), p[i])

\* C4: every line is a segment per ancestor (blank if the ancestor was the
\* last survivor of its level, bar otherwise), then the connector of the
\* entry (elbow exactly for the last survivor), then its name; a directory's
\* children follow its line and precede its next sibling's.
C4_TreeLayout ==
  tree.st = "ok" =>
    /\ tree.val = ExpectedTree(variant, fs)
    /\ LET lines == LinesOf(tree.val, <<>>)
       IN  \A i \in 1..Len(lines) : WellFormedLine(lines[i])

\* a line two levels down whose ancestors were one not last and one last
C4_Witness ==
  /\ tree.st = "ok"
  /\ \E i \in 1..Len(LinesOf(tree.val, <<>>)) :
       LET line == LinesOf(tree.val, <<>>)[i]
       IN  Indent(line) = 2 /\ line[1] = BAR /\ line[2] = BLANK

\* C10 (as stated): when a listing fails the tree builder still returns
\* normally, with the lines of everything but the failing directory's subtree.
C10_Original ==
  (tree.st # "none" /\ SomeListingFails(variant, fs)) =>
    /\ tree.st = "ok"
    /\ tree.val = ExpectedTree(variant, fs)
    /\ Len(log) > 0

-----------------------------------------------------------------------------
(* Claims about a whole run *)

\* the collection loop has run
Loaded == allFiles.st = "ok" /\ pc # "walked"

HasKey(obj, key) == \E j \in 1..Len(obj) : obj[j].key = key

HasBlock(key) == \E j \in 1..Len(prompt.val.blocks) : prompt.val.blocks[j].file = key

\* C5: a file over the ceiling gets null; a readable file of at most the
\* ceiling, one of exactly the ceiling included, is loaded whole; so every
\* entry of fileData is within the ceiling, and a file that got null has no
\* key in fileData and no block in the prompt.
C5_LoadedWithinCeiling ==
  Loaded =>
    /\ \A i \in 1..Len(allFiles.val) :
         LET path == allFiles.val[i]
             e == EntryAt(fs.items, path)
             key == RelativePath(path)
         IN  /\ (SizeOf(e) > 1000000 \/ e.st \in {"noread", "nostat"}) => key \in nulled
             /\ (SizeOf(e) <= 1000000 /\ e.st \notin {"noread", "nostat"}) =>
                  \E j \in 1..Len(fileData) :
                     /\ fileData[j].key = key
                     /\ fileData[j].val = [of |-> path, bytes |-> SizeOf(e)]
    /\ \A j \in 1..Len(fileData) : fileData[j].val.bytes <= 1000000
    /\ \A key \in nulled :
         /\ ~HasKey(fileData, key)
         /\ prompt.st = "ok" => ~HasBlock(key)

\* a file of exactly the ceiling was loaded, a file one byte over it was not,
\* and the prompt was assembled
C5_Witness ==
  /\ Loaded
  /\ prompt.st = "ok"
  /\ \E j \in 1..Len(fileData) : fileData[j].val.bytes = 1000000
  /\ \E i \in 1..Len(allFiles.val) :
       /\ EntryAt(fs.items, allFiles.val[i]).st = "big"
       /\ RelativePath(allFiles.val[i]) \in nulled

\* C6 (as stated): the blocks of the prompt are in the order in which the
\* records were put into fileData, whatever the keys.
C6_Original ==
  prompt.st = "ok" =>
    [j \in 1..Len(prompt.val.blocks) |-> prompt.val.blocks[j].file] = inserted

\* the answer carried a text for choices[0].message.content
HasContent(r) == r.kind = "ok" /\ r.shape = "content"

\* s with the white space at its two ends taken off
IsTrimOf(t, s) ==
  /\ Len(t) > 0 => ~IsSpace(t[1]) /\ ~IsSpace(t[Len(t)])
  /\ \E a \in 0..Len(s) : \E b \in a..Len(s) :
       /\ t = SubSeq(s, a + 1, b)
       /\ \A i \in (1..a) \cup ((b + 1)..Len(s)) : IsSpace(s[i])

\* C7: sendToOpenRouter never throws; whatever the POST came to it returns
\* the empty string, having logged the failure, unless the answer carries a
\* content, and then that text trimmed; and the command goes on to its end.
C7_SendNeverThrows ==
  /\ analysis.st # "thrown"
  /\ pc = "crashed" => allFiles.st = "thrown"
  /\ (response.st = "ok" /\ pc # "responded") =>
       /\ analysis.st = "ok"
       /\ IF HasContent(response.val)
          THEN IsTrimOf(analysis.val, response.val.text)
          ELSE /\ analysis.val = <<>>
               /\ \E i \in 1..Len(log) : log[i] \in {"api-error", "no-response"}
       /\ pc \in {"analyzed", "done"}
       /\ pc = "done" => exitCode = 0

\* a first choice without a message came back, and the command ended normally
C7_Witness ==
  /\ response.st = "ok"
  /\ response.val.shape = "nomessage"
  /\ pc = "done"
  /\ exitCode = 0

\* C8: with the key unset or empty the run ends with exit code 1 before any
\* listing, file read, POST or write of an output file.
C8_NoKeyNoWork ==
  apiKey \in {"unset", "empty"} =>
    /\ pc \in {"boot", "exit"}
    /\ pc = "exit" => exitCode = 1
    /\ effects = {}
    /\ nPosts = 0 /\ nWrites = 0 /\ outFile = "untouched"
    /\ tree = Idle /\ allFiles = Idle /\ prompt = Idle

\* a run with an empty key has exited
C8_Witness ==
  /\ apiKey = "empty"
  /\ pc = "exit"
  /\ exitCode = 1

\* C9 (as stated): a run that ends has written the output file once, whole,
\* after everything was assembled; it never leaves it truncated or empty.
C9_Original ==
  pc = "done" =>
    /\ outFile # "empty"
    /\ nWrites = 1 \/ \E i \in 1..Len(log) : log[i] \in {"write-error", "main-error"}

\* the regular files that a collector which skips only the directories it
\* cannot list would return: those not left out by the variant's rules, under
\* directories that are not left out and can be listed
RECURSIVE ReachableFiles(_, _, _)
ReachableFiles(v, dir, dirPath) ==
  IF ~dir.ok THEN {}
  ELSE UNION {LET e == dir.items[i]
                  path == Append(dirPath, e.name)
                  left == IF v = "sub" THEN MatchesRule(EXCLUDE, e.name)
                          ELSE IF e.kind = "dir"
                          THEN \E j \in 1..Len(excludedDirs) : excludedDirs[j] = e.name
                          ELSE MatchesRule(excludedFiles, e.name)
              IN  IF left THEN {}
                  ELSE IF e.kind = "dir" THEN ReachableFiles(v, e, path)
                  ELSE IF e.kind = "file" THEN {path}
                  ELSE {} : i \in 1..Len(dir.items)}

\* C11 (as stated): a listing that fails during file collection is
\* recoverable: the collector returns normally with every regular file of the
\* directories it could list, and the command goes on to the prompt and the
\* remote call.
C11_Original ==
  allFiles # Idle =>
    /\ allFiles.st = "ok"
    /\ pc # "crashed"
    /\ \A path \in ReachableFiles(variant, fs, <<>>) :
         \E i \in 1..Len(allFiles.val) : allFiles.val[i] = path
    /\ variant = "sub" => prompt.st = "ok" /\ nPosts = 1

\* C12 (as stated): every analysis run that gets past the key validation and
\* ends without an error of its own has issued exactly one POST, whatever the
\* project holds.
C12_Original ==
  (/\ pc = "done"
   /\ command # "generate"
   /\ \A i \in 1..Len(log) : log[i] \notin {"main-error", "write-error"})
    => nPosts = 1

\* the POST count that the run is written to reach once the prompt step is
\* over: one, but none in the combined program when no file was loaded
PostsDue == IF variant = "combined" /\ fileData = <<>> THEN 0 ELSE 1

\* C12 (as amended): at most one POST is issued, and none is repeated; it
\* is issued only after collection and loading have completed, with the
\* prompt assembled; the subcommand variant issues it whenever collection
\* completes, the combined program only when at least one file was loaded;
\* a run whose collection fails issues none; the result of an analysis is
\* written only after the POST has returned, or with no POST due.
C12_OnePostWhenFilesLoaded ==
  /\ nPosts <= 1
  /\ nPosts = 1 <=> prompt.st = "ok"
  /\ nPosts = 1 => allFiles.st = "ok"
  /\ (variant = "sub" /\ allFiles.st = "ok") => nPosts = 1
  /\ (variant = "combined" /\ pc \in {"awaitPost", "responded", "analyzed"})
       => nPosts = PostsDue
  /\ (variant = "combined" /\ pc = "done" /\ analysis # Idle) => nPosts = PostsDue
  /\ (analysis # Idle /\ nPosts = 1) => response.st = "ok"
  /\ (command # "generate" /\ outFile = "complete")
       => (response.st = "ok" \/ (nPosts = 0 /\ PostsDue = 0))

\* the combined program has ended, having collected files, loaded none of
\* them, sent nothing and written its output
C12_Witness ==
  /\ variant = "combined"
  /\ pc = "done"
  /\ allFiles.st = "ok"
  /\ Len(allFiles.val) > 0
  /\ fileData = <<>>
  /\ nPosts = 0
  /\ outFile = "complete"

\* C13 (as stated): the language tag of every block is the extension of its
\* file in lower case without the dot, and the fallback of the variant when
\* there is no extension: empty in the subcommand variant, txt in the
\* combined program.
C13_Original ==
  prompt.st = "ok" =>
    \A j \in 1..Len(prompt.val.blocks) :
      LET b == prompt.val.blocks[j]
          ext == Slice1(ExtName(b.file))
      IN  b.lang = IF ext # <<>> THEN ToLowerCase(ext)
                   ELSE IF variant = "combined" THEN <<"t", "x", "t">>
                   ELSE <<>>

====
